---- MODULE Spec2Model ----
(***************************************************************************)
(* RawImage (utils/image.js): channel conversion, resize, pad and          *)
(* center_crop over the three backends chosen at module load               *)
(* (react-native with or without a canvas polyfill, browser canvas,        *)
(* sharp).  An image is the record of the fields _update assigns.  Pixel   *)
(* data is a sequence of bytes; position k of the sequence is index k-1    *)
(* of the Uint8ClampedArray.                                               *)
(***************************************************************************)
EXTENDS Integers, Sequences, FiniteSets, TLC

\* ---------------------------------------------------------------- bounds
\* Largest width and largest height of any image handled.
MaxWidth == 3
MaxHeight == 2
\* Largest single pad offset a caller passes.
MaxPad == 1
\* Number of resize, pad and center_crop calls in one run.
MaxGeometric == 1

\* ------------------------------------------------------------ typed arrays
\* Reading a typed array outside its range gives undefined.
Undef == 0 - 1

\* data[i] for an integer index i (0-based).
At(data, i) == IF i >= 0 /\ i < Len(data) THEN data[i + 1] ELSE Undef

\* Storing undefined (or NaN) in a Uint8ClampedArray stores 0.
ToByte(v) == IF v = Undef THEN 0 ELSE v

\* A new Uint8ClampedArray(n) written by a loop is [k \in 1..n |-> L(k - 1)],
\* L(i) being the value the loop leaves at index i (0 where it writes
\* nothing); writes past the end are dropped by the typed array.

\* --------------------------------------------------------------- grayscale
\* Triples (r*65536 + g*256 + b) whose exact weighted sum ends in .5 while the
\* sum of the three double products 0.2989*r + 0.5870*g + 0.1140*b lies just
\* below the half, so that Math.round rounds it down.  On every other triple
\* the double sum rounds as the exact sum does.
DoubleBelowHalf == {
    9228, 20590, 30289, 39046, 39988, 43535, 48745, 52292,
    58444, 62712, 64596, 657666, 669028, 669970, 670691, 671633,
    676122, 678727, 691973, 716581, 1324560, 1330712, 1336864, 1341132,
    1342074, 1343016, 1344679, 1345621, 1346563, 1349168, 1350831, 1351773,
    1354378, 1355320, 1357925, 1358867, 1359588, 1364077, 1981755, 1997606,
    2001874, 2002816, 2006363, 2007305, 2627588, 2631856, 2636345, 2641555,
    2668047, 2675862, 2678467, 2680351, 2682014, 2682956, 2684619, 2686503,
    3299692, 3308449, 3312938, 3319090, 3327847, 3333999, 3336604, 3341093,
    3941978, 3960434, 3961376, 3969191, 3970133, 3971075, 3973680, 3988589,
    3994741, 3997346, 4597510, 4599173, 4600115, 4608872, 4609814, 4622118,
    4631817, 4637969, 4639632, 4642237, 4646726, 5247611, 5263462, 5266067,
    5272219, 5274824, 5276708, 5279313, 5280976, 5282860, 5291617, 5294222,
    5307468, 5914505, 5927751, 5932961, 5933903, 5937450, 5940997, 6567432,
    6571700, 6573584, 6580457, 6584946, 6585888, 6601739, 6606007, 6608612,
    6614043, 6616648, 6618311, 7222022, 7229837, 7233384, 7234326, 7238594,
    7240478, 7243083, 7244746, 7249235, 7253503, 7257992, 7262481, 7266749,
    7268633, 7270296, 7271238, 7272901, 7890579, 7896731, 7901220, 7905488,
    7918734, 7924886, 7927491, 7929375, 8531202, 8535470, 8539959, 8544227,
    8552263, 8561020, 8563625, 8571661, 8574266, 8576871, 9176093, 9178698,
    9184850, 9187455, 9188397, 9193607, 9196212, 9198096, 9202364, 9204248,
    9206853, 9211121, 9213005, 9221762, 9224367, 9226251, 9230519, 9237613,
    9845592, 9854349, 9858838, 9864990, 9873747, 9882504, 10501845, 10503729,
    10512486, 10516033, 10531884, 10533547, 10536152, 10544188, 10546793, 10548456,
    10549398, 11155714, 11164471, 11185532, 11188137, 11198778, 11200441, 11201383,
    11203046, 11811967, 11822608, 11828760, 11835633, 11837517, 11848879, 11850763,
    11855031, 11856915, 11857636, 11859520, 11861183, 12456858, 12461347, 12465615,
    12467499, 12470104, 12476256, 12488560, 12489502, 12491165, 12493770, 12501806,
    12504411, 12507016, 12511505, 12513168, 12515773, 13126357, 13143150, 13156396,
    13160664, 13167758, 13766980, 13775737, 13780226, 13786378, 13795135, 13799403,
    13803892, 13812649, 13814533, 13817138, 14424175, 14425117, 14431990, 14433874,
    14436479, 14437421, 14438142, 14446178, 14448783, 14459424, 14462029, 14463692,
    14466297, 14473391, 14474333, 14475275, 14476938, 14479543, 14482148, 15085859,
    15094616, 15100768, 15114014, 15115677, 15118282, 15126318, 15128923, 15130586,
    15131528, 15767662, 15780908, 15785176, 15793212, 16387003, 16388887, 16391492,
    16397644, 16400249, 16404738, 16406401, 16410890, 16417042, 16418705, 16419647,
    16421310, 16423915, 16428404, 16431951, 16434556, 16436219, 16437161, 16441650,
    16443313, 16445197, 16445918, 16447802}

\* 10000 times the exact value of 0.2989*red + 0.5870*green + 0.1140*blue.
Weighted(red, green, blue) == 2989 * red + 5870 * green + 1140 * blue

\* Math.round(0.2989 * red + 0.5870 * green + 0.1140 * blue), NaN if a
\* component is undefined.
Luma(red, green, blue) ==
    IF red = Undef \/ green = Undef \/ blue = Undef THEN Undef
    ELSE IF (red * 65536 + green * 256 + blue) \in DoubleBelowHalf
         THEN Weighted(red, green, blue) \div 10000
         ELSE (Weighted(red, green, blue) + 5000) \div 10000

\* The fields of a RawImage.
RawImage(data, width, height, channels) ==
    [data |-> data, width |-> width, height |-> height, channels |-> channels]

\* _update(data, width, height, channels) on an instance: every call in the
\* file passes a channel count.
_update(this, data, width, height, channels) ==
    RawImage(data, width, height, channels)

\* A call that returns v / a call that throws, leaving v as the instance.
Returns(v) == [threw |-> FALSE, this |-> v]
Throws(v) == [threw |-> TRUE, this |-> v]

\* grayscale() stepping through the data three bytes at a time whatever the
\* channel count.
GrayLoopStride3(this, k) ==
    LET i == k * 3
    IN  IF i < Len(this.data)
        THEN ToByte(Luma(At(this.data, i), At(this.data, i + 1), At(this.data, i + 2)))
        ELSE 0

\* The loop of grayscale(): i runs over 0, channels, 2*channels, ... below
\* data.length and writes newData[i / channels].
GrayLoop(this, k) ==
    LET i == k * this.channels
    IN  IF i < Len(this.data)
        THEN ToByte(Luma(At(this.data, i), At(this.data, i + 1), At(this.data, i + 2)))
        ELSE 0

\* Length of the array grayscale() allocates.
GrayAlloc(this) == this.width * this.height * 3

\* grayscale() without its default case.
grayscale_any(this) ==
    IF this.channels = 1 THEN Returns(this)
    ELSE Returns(_update(this,
             [k \in 1..(GrayAlloc(this)) |-> GrayLoop(this, k - 1)],
             this.width, this.height, 1))

grayscale(this) ==
    IF this.channels = 1 THEN Returns(this)
    ELSE IF this.channels \in {3, 4}
         THEN Returns(_update(this,
                  [k \in 1..(GrayAlloc(this)) |-> GrayLoop(this, k - 1)],
                  this.width, this.height, 1))
         ELSE Throws(this)

\* rgb() copying the gray bytes one after the other instead of three times each.
RgbLoopNoRepeat(this, k) ==
    LET p == k \div 3
        j == k % 3
    IN  IF this.channels = 1
        THEN (IF p < Len(this.data) THEN ToByte(At(this.data, k)) ELSE 0)
        ELSE (IF 4 * p < Len(this.data) THEN ToByte(At(this.data, 4 * p + j)) ELSE 0)

\* The loops of rgb(): from 1 channel i runs over every index and writes
\* three bytes at 3*i; from 4 channels i runs in steps of 4 and writes the
\* three colour bytes at 3*(i/4).
RgbLoop(this, k) ==
    LET p == k \div 3
        j == k % 3
    IN  IF this.channels = 1
        THEN (IF p < Len(this.data) THEN ToByte(At(this.data, p)) ELSE 0)
        ELSE (IF 4 * p < Len(this.data) THEN ToByte(At(this.data, 4 * p + j)) ELSE 0)

rgb(this) ==
    IF this.channels = 3 THEN Returns(this)
    ELSE IF this.channels \in {1, 4}
         THEN Returns(_update(this,
                  [k \in 1..(this.width * this.height * 3) |-> RgbLoop(this, k - 1)],
                  this.width, this.height, 3))
         ELSE Throws(this)

\* rgba() leaving the alpha byte of the new array at 0.
RgbaLoopNoAlpha(this, k) ==
    LET p == k \div 4
        j == k % 4
        step == IF this.channels = 1 THEN 1 ELSE 3
    IN  IF step * p < Len(this.data) /\ j # 3
        THEN (IF this.channels = 1 THEN ToByte(At(this.data, p))
              ELSE ToByte(At(this.data, 3 * p + j)))
        ELSE 0

\* The loops of rgba(): as rgb(), with a fourth byte 255 for every pixel
\* the loop visits.
RgbaLoop(this, k) ==
    LET p == k \div 4
        j == k % 4
        step == IF this.channels = 1 THEN 1 ELSE 3
    IN  IF step * p < Len(this.data)
        THEN (IF j = 3 THEN 255
              ELSE IF this.channels = 1 THEN ToByte(At(this.data, p))
              ELSE ToByte(At(this.data, 3 * p + j)))
        ELSE 0

rgba(this) ==
    IF this.channels = 4 THEN Returns(this)
    ELSE IF this.channels \in {1, 3}
         THEN Returns(_update(this,
                  [k \in 1..(this.width * this.height * 4) |-> RgbaLoop(this, k - 1)],
                  this.width, this.height, 4))
         ELSE Throws(this)

convert(this, numChannels) ==
    IF this.channels = numChannels THEN Returns(this)
    ELSE CASE numChannels = 1 -> grayscale(this)
           [] numChannels = 3 -> rgb(this)
           [] numChannels = 4 -> rgba(this)
           [] OTHER -> Throws(this)

\* clone(): a new instance over a copy of the data.
clone(this) == RawImage(this.data, this.width, this.height, this.channels)

\* ------------------------------------------------------------------ pixels
\* Position k of a row-major, channel-interleaved array of width w with c
\* channels holds byte JOf of pixel (XOf, YOf).
XOf(k, w, c) == ((k - 1) \div c) % w
YOf(k, w, c) == ((k - 1) \div c) \div w
JOf(k, c) == (k - 1) % c

Inside(im, x, y) == x >= 0 /\ x < im.width /\ y >= 0 /\ y < im.height

\* Byte j of pixel (x, y) of an image, 0 outside it.
Pixel(im, x, y, j) ==
    IF Inside(im, x, y)
    THEN ToByte(At(im.data, (y * im.width + x) * im.channels + j))
    ELSE 0

\* A rescaled copy of im, w x h.  The kernels of the backends are not part
\* of this file; the nearest source pixel stands for the value they compute.
Scale(im, w, h) ==
    RawImage([k \in 1..(w * h * im.channels) |->
                 LET x == XOf(k, w, im.channels)
                     y == YOf(k, w, im.channels)
                     j == JOf(k, im.channels)
                 IN  Pixel(im, (x * im.width) \div w, (y * im.height) \div h, j)],
             w, h, im.channels)

\* ------------------------------------------------------------------ canvas
\* A canvas is its RGBA bitmap, transparent black when created.
createCanvasFunction(width, height) ==
    RawImage([k \in 1..(width * height * 4) |-> 0], width, height, 4)

\* new ImageDataClass(data, width, height) rejects a data length other
\* than 4 * width * height.
toImageData(this) ==
    LET cloned == rgba(clone(this))
    IN  IF cloned.threw \/ Len(cloned.this.data) # 4 * this.width * this.height
        THEN Throws(this)
        ELSE Returns(cloned.this)

\* ctx.putImageData(imageData, dx, dy): the pixels are copied as they are.
putImageData(canvas, imageData, dx, dy) ==
    RawImage([k \in 1..(canvas.width * canvas.height * 4) |->
                 LET x == XOf(k, canvas.width, 4)
                     y == YOf(k, canvas.width, 4)
                     j == JOf(k, 4)
                 IN  IF Inside(imageData, x - dx, y - dy)
                        THEN Pixel(imageData, x - dx, y - dy, j)
                        ELSE Pixel(canvas, x, y, j)],
             canvas.width, canvas.height, 4)

\* ctx.getImageData(0, 0, width, height): transparent black outside the canvas.
getImageData(canvas, width, height) ==
    [k \in 1..(width * height * 4) |->
        LET x == XOf(k, width, 4)
            y == YOf(k, width, 4)
            j == JOf(k, 4)
        IN  Pixel(canvas, x, y, j)]

\* ctx.drawImage(image, sx, sy, sw, sh, dx, dy, dw, dh): the source rectangle
\* is drawn scaled into the destination rectangle, both clipped to their
\* bitmaps; a fully transparent source pixel leaves the canvas as it is.
drawImage(canvas, image, sx, sy, sw, sh, dx, dy, dw, dh) ==
    RawImage([k \in 1..(canvas.width * canvas.height * 4) |->
                 LET x == XOf(k, canvas.width, 4)
                     y == YOf(k, canvas.width, 4)
                     j == JOf(k, 4)
                     u == sx + ((x - dx) * sw) \div dw
                     v == sy + ((y - dy) * sh) \div dh
                 IN  IF /\ x >= dx /\ x < dx + dw /\ y >= dy /\ y < dy + dh
                        /\ Inside(image, u, v)
                        /\ Pixel(image, u, v, 3) # 0
                     THEN Pixel(image, u, v, j)
                     ELSE Pixel(canvas, x, y, j)],
             canvas.width, canvas.height, 4)

\* toCanvas(): the clone converted to RGBA, put on a canvas of its size.
toCanvas(this) ==
    LET data == toImageData(this)
    IN  IF data.threw THEN Throws(this)
        ELSE Returns(putImageData(createCanvasFunction(this.width, this.height),
                                  data.this, 0, 0))

\* ------------------------------------------------------------------- sharp
\* sharp(data, {raw: {width, height, channels}}) reads the first
\* width * height * channels bytes of data.
sharp(this) ==
    RawImage([k \in 1..(this.width * this.height * this.channels) |->
                 LET x == XOf(k, this.width, this.channels)
                     y == YOf(k, this.width, this.channels)
                     j == JOf(k, this.channels)
                 IN  Pixel(this, x, y, j)],
             this.width, this.height, this.channels)

\* img.extend({left, right, top, bottom}): the added border is zero.
extend(img, left, right, top, bottom) ==
    RawImage([k \in 1..((img.width + left + right) * (img.height + top + bottom)
                         * img.channels) |->
                 LET x == XOf(k, img.width + left + right, img.channels)
                     y == YOf(k, img.width + left + right, img.channels)
                     j == JOf(k, img.channels)
                 IN  Pixel(img, x - left, y - top, j)],
             img.width + left + right, img.height + top + bottom, img.channels)

\* img.extract({left, top, width, height}).
extract(img, left, top, width, height) ==
    RawImage([k \in 1..(width * height * img.channels) |->
                 LET x == XOf(k, width, img.channels)
                     y == YOf(k, width, img.channels)
                     j == JOf(k, img.channels)
                 IN  Pixel(img, x + left, y + top, j)],
             width, height, img.channels)

\* loadImageFunction(img) of the sharp branch: the raw buffer and the size
\* and channel count sharp reports.
loadImageFunction(img) == RawImage(img.data, img.width, img.height, img.channels)

\* ------------------------------------------------------- utils/maths.js
\* transpose_data(array, dims, axes) for three axes: the element at index
\* (a0, a1, a2) of dims goes to the index made of (a[axes[1]], a[axes[2]],
\* a[axes[3]]).  The result has the length of array.
transpose_data(array, dims, axes) ==
    LET shape == [i \in 1..3 |-> dims[axes[i] + 1]]
        Old(k) ==
            LET n == <<k \div (shape[2] * shape[3]), (k \div shape[3]) % shape[2], k % shape[3]>>
                a == [d \in 1..3 |-> n[CHOOSE i \in 1..3 : axes[i] + 1 = d]]
            IN  (a[1] * dims[2] + a[2]) * dims[3] + a[3]
    IN  [k \in 1..Len(array) |->
            IF k <= dims[1] * dims[2] * dims[3] THEN ToByte(At(array, Old(k - 1)))
            ELSE array[k]]

\* interpolate_data(input, [in_channels, in_height, in_width],
\* [out_height, out_width]): in_channels planes of out_height x out_width.
interpolate_data(input, in_shape, out_shape) ==
    LET in_channels == in_shape[1]
        in_height == in_shape[2]
        in_width == in_shape[3]
        out_height == out_shape[1]
        out_width == out_shape[2]
    IN  [k \in 1..(in_channels * out_height * out_width) |->
            LET c == (k - 1) \div (out_height * out_width)
                y == ((k - 1) \div out_width) % out_height
                x == (k - 1) % out_width
            IN  ToByte(At(input, (c * in_height + (y * in_height) \div out_height) * in_width
                                 + (x * in_width) \div out_width))]

\* ------------------------------------------------------------- environment
\* The branch the module-level probes select: IS_REACT_NATIVE with a canvas
\* polyfill and env.useGCanvas, IS_REACT_NATIVE without one, BROWSER_ENV,
\* or sharp.
Environments == {"react-native-canvas", "react-native", "browser", "sharp"}

\* The table with the codes of lanczos and bilinear exchanged.
RESAMPLING_MAPPING_exchanged ==
    [r \in {"0", "1", "2", "3", "4", "5"} |->
        CASE r = "0" -> "nearest"
          [] r = "1" -> "bilinear"
          [] r = "2" -> "lanczos"
          [] r = "3" -> "bicubic"
          [] r = "4" -> "box"
          [] r = "5" -> "hamming"]

RESAMPLING_MAPPING ==
    [r \in {"0", "1", "2", "3", "4", "5"} |->
        CASE r = "0" -> "nearest"
          [] r = "1" -> "lanczos"
          [] r = "2" -> "bilinear"
          [] r = "3" -> "bicubic"
          [] r = "4" -> "box"
          [] r = "5" -> "hamming"]

\* What an async method hands back: a rejection, the instance itself, or a
\* new RawImage; kernel and warned record the sharp call made by resize.
\* array says whose data array the object handed back holds: the array of
\* the instance ("this.data") or one allocated during the call ("new").
Rejected(this) ==
    [threw |-> TRUE, same |-> FALSE, val |-> this, kernel |-> "", warned |-> FALSE,
     array |-> "", error |-> "Error"]
Itself(this) ==
    [threw |-> FALSE, same |-> TRUE, val |-> this, kernel |-> "", warned |-> FALSE,
     array |-> "this.data", error |-> ""]
Fresh(v) ==
    [threw |-> FALSE, same |-> FALSE, val |-> v, kernel |-> "", warned |-> FALSE,
     array |-> "new", error |-> ""]

\* `return image.convert(n)` on a RawImage just built from backend data.
Converted(this, image, numChannels) ==
    LET r == convert(image, numChannels)
    IN  IF r.threw THEN Rejected(this) ELSE Fresh(r.this)

\* ------------------------------------------------------------------ resize
resize_canvas_polyfill(this, width, height) ==
    LET canvas == createCanvasFunction(this.width, this.height)
        imageData == toImageData(this)
        put == putImageData(canvas, imageData.this, 0, 0)
        drawn == drawImage(put, put, 0, 0, this.width, this.height, 0, 0, width, height)
        resized == RawImage(getImageData(drawn, width, height), width, height, 4)
    IN  IF imageData.threw THEN Rejected(this)
        ELSE Converted(this, resized, this.channels)

resize_fallback(this, width, height) ==
    LET trsnsposed == transpose_data(this.data,
                          <<this.width, this.height, this.channels>>, <<2, 0, 1>>)
        resized == interpolate_data(trsnsposed,
                          <<this.channels, this.height, this.width>>, <<height, width>>)
        newData == transpose_data(resized,
                          <<this.channels, height, width>>, <<1, 2, 0>>)
    IN  Fresh(RawImage(newData, width, height, this.channels))

resize_browser(this, width, height) ==
    LET numChannels == this.channels
        canvas == toCanvas(this)
        drawn == drawImage(createCanvasFunction(width, height), canvas.this,
                           0, 0, this.width, this.height, 0, 0, width, height)
        resizedImage == RawImage(getImageData(drawn, width, height), width, height, 4)
    IN  IF canvas.threw THEN Rejected(this)
        ELSE Converted(this, resizedImage, numChannels)

resize_sharp(this, width, height, resample) ==
    LET resampleMethod ==
            IF resample \in DOMAIN RESAMPLING_MAPPING
            THEN RESAMPLING_MAPPING[resample] ELSE resample
        downgraded == resampleMethod \in {"box", "hamming"}
        interpolator == IF downgraded THEN "bilinear" ELSE resampleMethod
        img == sharp(this)
    IN  IF interpolator \in {"nearest", "bilinear", "bicubic"}
        THEN [Fresh(loadImageFunction(Scale(img, width, height)))
                 EXCEPT !.kernel = "affine:" \o interpolator, !.warned = downgraded]
        ELSE IF interpolator = "lanczos"
        THEN [Fresh(loadImageFunction(Scale(img, width, height)))
                 EXCEPT !.kernel = "resize:lanczos3"]
        ELSE [Rejected(this) EXCEPT !.error = "Resampling method is not supported"]

\* The destructuring default `resample = 2` for an omitted option.
Default(resample) == IF resample = "undefined" THEN "2" ELSE resample

resize(this, env, width, height, resample) ==
    CASE env = "react-native-canvas" -> resize_canvas_polyfill(this, width, height)
      [] env = "react-native" -> resize_fallback(this, width, height)
      [] env = "browser" -> resize_browser(this, width, height)
      [] env = "sharp" -> resize_sharp(this, width, height, Default(resample))

\* --------------------------------------------------------------------- pad
Max(a, b) == IF a >= b THEN a ELSE b

pad_canvas_polyfill(this, left, right, top, bottom) ==
    LET newWidth == this.width + left + right
        newHeight == this.height + top + bottom
        canvas == createCanvasFunction(newWidth, newHeight)
        imageData == toImageData(this)
        put == putImageData(canvas, imageData.this, left, top)
        padded == RawImage(getImageData(put, newWidth, newHeight), newWidth, newHeight, 4)
    IN  IF imageData.threw THEN Rejected(this)
        ELSE Converted(this, padded, this.channels)

\* The loop of the branch without canvas: source pixel number p = i / channels
\* has x = p % this.width, y = floor(p / this.width) and is written at
\* (y * width + x) * channels of paddedData.
PadLoop(this, width, k) ==
    LET channels == this.channels
        q == k \div channels
        j == k % channels
        x == q % width
        y == q \div width
        i == (y * this.width + x) * channels
    IN  IF x < this.width /\ i < Len(this.data)
        THEN ToByte(At(this.data, i + j))
        ELSE 0

pad_fallback(this, left, right, top, bottom) ==
    LET width == this.width + left + right
        height == this.height + top + bottom
        paddedData == [k \in 1..(width * height * this.channels) |->
                             PadLoop(this, width, k - 1)]
    IN  Fresh(RawImage(paddedData, width, height, this.channels))

pad_browser(this, left, right, top, bottom) ==
    LET numChannels == this.channels
        canvas == toCanvas(this)
        newWidth == this.width + left + right
        newHeight == this.height + top + bottom
        drawn == drawImage(createCanvasFunction(newWidth, newHeight), canvas.this,
                           0, 0, this.width, this.height,
                           left, top, newWidth, newHeight)
        paddedImage == RawImage(getImageData(drawn, newWidth, newHeight),
                                newWidth, newHeight, 4)
    IN  IF canvas.threw THEN Rejected(this)
        ELSE Converted(this, paddedImage, numChannels)

pad_sharp(this, left, right, top, bottom) ==
    Fresh(loadImageFunction(extend(sharp(this), left, right, top, bottom)))

\* pad() without the early return for offsets that are all zero.
pad_always_draws(this, env, offsets) ==
    LET left == Max(offsets[1], 0)
        right == Max(offsets[2], 0)
        top == Max(offsets[3], 0)
        bottom == Max(offsets[4], 0)
    IN  CASE env = "react-native-canvas" ->
                 pad_canvas_polyfill(this, left, right, top, bottom)
          [] env = "react-native" -> pad_fallback(this, left, right, top, bottom)
          [] env = "browser" -> pad_browser(this, left, right, top, bottom)
          [] env = "sharp" -> pad_sharp(this, left, right, top, bottom)

pad(this, env, offsets) ==
    LET left == Max(offsets[1], 0)
        right == Max(offsets[2], 0)
        top == Max(offsets[3], 0)
        bottom == Max(offsets[4], 0)
    IN  IF left = 0 /\ right = 0 /\ top = 0 /\ bottom = 0 THEN Itself(this)
        ELSE CASE env = "react-native-canvas" ->
                      pad_canvas_polyfill(this, left, right, top, bottom)
               [] env = "react-native" -> pad_fallback(this, left, right, top, bottom)
               [] env = "browser" -> pad_browser(this, left, right, top, bottom)
               [] env = "sharp" -> pad_sharp(this, left, right, top, bottom)

\* ------------------------------------------------------------- center_crop
\* width_offset and height_offset are halves; the model carries twice their
\* value: offset2 = this.width - crop_width = 2 * width_offset.

\* Conversion of the double n2 / 2 to the integer argument of putImageData
\* (truncation towards zero).
ToLong(n2) == IF n2 >= 0 THEN n2 \div 2 ELSE 0 - ((0 - n2) \div 2)

center_crop_canvas_polyfill(this, crop_width, crop_height) ==
    LET width_offset2 == this.width - crop_width
        height_offset2 == this.height - crop_height
        canvas == createCanvasFunction(crop_width, crop_height)
        imageData == toImageData(this)
        put == putImageData(canvas, imageData.this,
                            ToLong(0 - width_offset2), ToLong(0 - height_offset2))
        cropped == RawImage(getImageData(put, crop_width, crop_height),
                            crop_width, crop_height, 4)
    IN  IF imageData.threw THEN Rejected(this)
        ELSE Converted(this, cropped, this.channels)

\* The loop of the branch without canvas: destination pixel (x, y) reads
\* data[pixelIndex + j] with
\* pixelIndex = ((y + height_offset) * this.width + (x + width_offset)) * channels,
\* which is undefined when pixelIndex is not a whole number or lies outside data.
CropLoop(this, crop_width, crop_height, k) ==
    LET channels == this.channels
        q == k \div channels
        j == k % channels
        x == q % crop_width
        y == q \div crop_width
        pixelIndex2 == ((2 * y + (this.height - crop_height)) * this.width
                        + (2 * x + (this.width - crop_width))) * channels
    IN  IF pixelIndex2 % 2 = 0
        THEN ToByte(At(this.data, pixelIndex2 \div 2 + j))
        ELSE 0

center_crop_fallback(this, crop_width, crop_height) ==
    LET croppedData == [k \in 1..(crop_width * crop_height * this.channels) |->
                              CropLoop(this, crop_width, crop_height, k - 1)]
    IN  Fresh(RawImage(croppedData, crop_width, crop_height, this.channels))

\* Where the canvas samples when a drawImage coordinate n2 / 2 falls between
\* two pixels: the browser decides, rx (ry) = 0 for the lower pixel and 1 for
\* the upper one.
Snap(n2, r) == (n2 + r) \div 2

center_crop_browser(this, crop_width, crop_height, rx, ry) ==
    LET numChannels == this.channels
        width_offset2 == this.width - crop_width
        height_offset2 == this.height - crop_height
        canvas == toCanvas(this)
        sourceX == IF width_offset2 >= 0 THEN Snap(width_offset2, rx) ELSE 0
        destX == IF width_offset2 >= 0 THEN 0 ELSE Snap(0 - width_offset2, rx)
        sourceY == IF height_offset2 >= 0 THEN Snap(height_offset2, ry) ELSE 0
        destY == IF height_offset2 >= 0 THEN 0 ELSE Snap(0 - height_offset2, ry)
        drawn == drawImage(createCanvasFunction(crop_width, crop_height), canvas.this,
                           sourceX, sourceY, crop_width, crop_height,
                           destX, destY, crop_width, crop_height)
        resizedImage == RawImage(getImageData(drawn, crop_width, crop_height),
                                 crop_width, crop_height, 4)
    IN  IF canvas.threw THEN Rejected(this)
        ELSE Converted(this, resizedImage, numChannels)

\* Math.floor(n2 / 2) for n2 >= 0.
Floor2(n2) == n2 \div 2

center_crop_sharp(this, crop_width, crop_height) ==
    LET width_offset2 == this.width - crop_width
        height_offset2 == this.height - crop_height
        img == sharp(this)
        top == Floor2(0 - height_offset2)
        left == Floor2(0 - width_offset2)
        y_padding == IF height_offset2 < 0
                     THEN <<Floor2(0 - height_offset2),
                            crop_height - this.height - Floor2(0 - height_offset2)>>
                     ELSE <<0, 0>>
        y_extract == IF height_offset2 < 0 THEN 0 ELSE Floor2(height_offset2)
        x_padding == IF width_offset2 < 0
                     THEN <<Floor2(0 - width_offset2),
                            crop_width - this.width - Floor2(0 - width_offset2)>>
                     ELSE <<0, 0>>
        x_extract == IF width_offset2 < 0 THEN 0 ELSE Floor2(width_offset2)
    IN  IF width_offset2 >= 0 /\ height_offset2 >= 0
        THEN Fresh(loadImageFunction(
                 extract(img, Floor2(width_offset2), Floor2(height_offset2),
                         crop_width, crop_height)))
        ELSE IF width_offset2 <= 0 /\ height_offset2 <= 0
        THEN Fresh(loadImageFunction(
                 extend(img, left, crop_width - this.width - left,
                        top, crop_height - this.height - top)))
        ELSE Fresh(loadImageFunction(
                 extract(extend(img, x_padding[1], x_padding[2], y_padding[1], y_padding[2]),
                         x_extract, y_extract, crop_width, crop_height)))

center_crop(this, env, crop_width, crop_height, rx, ry) ==
    IF this.width = crop_width /\ this.height = crop_height THEN Itself(this)
    ELSE CASE env = "react-native-canvas" ->
                  center_crop_canvas_polyfill(this, crop_width, crop_height)
           [] env = "react-native" -> center_crop_fallback(this, crop_width, crop_height)
           [] env = "browser" -> center_crop_browser(this, crop_width, crop_height, rx, ry)
           [] env = "sharp" -> center_crop_sharp(this, crop_width, crop_height)

\* ------------------------------------------ toImageData, toCanvas, save
IsReactNative(env) == env \in {"react-native-canvas", "react-native"}

\* createCanvasFunction and ImageDataClass are assigned by the react-native
\* branch when the polyfill is loaded and by the browser branch; the sharp
\* branch leaves them undefined.  env "react-native" has the polyfill
\* loaded with env.useGCanvas off, or no polyfill.
HasCanvas(env, polyfill) ==
    \/ env \in {"react-native-canvas", "browser"}
    \/ env = "react-native" /\ polyfill

\* Results of the synchronous methods that do not chain: the fields of the
\* instance after the call, the object handed back and whose array it holds.
Handed(this, val) ==
    [threw |-> FALSE, this |-> this, val |-> val, array |-> "new", error |-> ""]
Failed(this, error) ==
    [threw |-> TRUE, this |-> this, val |-> this, array |-> "", error |-> error]

\* toImageData() converting the instance itself instead of a clone.
toImageData_of_this(this, env, polyfill) ==
    LET data == toImageData(this)
    IN  IF IsReactNative(env) /\ ~HasCanvas(env, polyfill)
        THEN Failed(this, "toImageData is not supported")
        ELSE IF rgba(this).threw THEN Failed(this, "Unsupported number of channels")
        ELSE IF ~HasCanvas(env, polyfill) THEN Failed(rgba(this).this, "TypeError")
        ELSE IF data.threw THEN Failed(rgba(this).this, "ImageData")
        ELSE [Handed(rgba(this).this, data.this) EXCEPT !.array = "this.data"]

\* toImageData() in the environment: the clone is converted, then
\* `new ImageDataClass(...)` is evaluated, a TypeError where the class is
\* undefined.  The ImageData holds the clone's array.
toImageData_env(this, env, polyfill) ==
    LET data == toImageData(this)
    IN  IF IsReactNative(env) /\ ~HasCanvas(env, polyfill)
        THEN Failed(this, "toImageData is not supported")
        ELSE IF rgba(clone(this)).threw THEN Failed(this, "Unsupported number of channels")
        ELSE IF ~HasCanvas(env, polyfill) THEN Failed(this, "TypeError")
        ELSE IF data.threw THEN Failed(this, "ImageData")
        ELSE Handed(this, data.this)

\* toCanvas() in the environment: the clone is converted, then
\* `createCanvasFunction(...)` is called, a TypeError where it is undefined.
toCanvas_env(this, env, polyfill) ==
    LET canvas == toCanvas(this)
    IN  IF IsReactNative(env) /\ ~HasCanvas(env, polyfill)
        THEN Failed(this, "toCanvas is not supported")
        ELSE IF rgba(clone(this)).threw THEN Failed(this, "Unsupported number of channels")
        ELSE IF ~HasCanvas(env, polyfill) THEN Failed(this, "TypeError")
        ELSE IF canvas.threw THEN Failed(this, "ImageData")
        ELSE Handed(this, canvas.this)

\* clone(): a new RawImage over this.data.slice().
clone_env(this) == Handed(this, clone(this))

\* save(path, mime): env.useFS is read when the call is made.  On react-native the
\* bytes encoded are those of this.rgba(), which converts the instance;
\* elsewhere they are those of this.toCanvas(), and toBuffer says whether the
\* host's canvas object has a toBuffer method.  val is the image whose bytes
\* were encoded and written.
save(this, env, useFS, toBuffer) ==
    LET converted == rgba(this)
        canvas == toCanvas_env(this, env, FALSE)
    IN  IF ~useFS THEN Failed(this, "filesystem is disabled")
        ELSE IF IsReactNative(env)
        THEN IF converted.threw THEN Failed(this, "Unsupported number of channels")
             ELSE [Handed(converted.this, converted.this) EXCEPT !.array = "this.data"]
        ELSE IF canvas.threw THEN Failed(this, canvas.error)
        ELSE IF ~toBuffer THEN Failed(this, "TypeError")
        ELSE Handed(this, canvas.val)

\* ------------------------------------------------------------------- state
VARIABLES
    env,    \* the branch the module selected when it was loaded
    img,    \* the fields of the RawImage the caller holds
    pre,    \* the fields of that RawImage when the last call was made
    call,   \* the last call: method, numeric arguments, resample option
    ret,    \* what the last call handed back
    geometric \* how many resize, pad and center_crop calls were made

vars == <<env, img, pre, call, ret, geometric>>

Widths == 1..MaxWidth
Heights == 1..MaxHeight
Channels == {1, 2, 3, 4}
\* Offsets 0..MaxPad in every combination, and two calls with offsets that
\* pad() clamps to 0.
PadOffsets ==
    {<<l, r, t, b>> : l \in 0..MaxPad, r \in 0..MaxPad, t \in 0..MaxPad, b \in 0..MaxPad}
        \cup {<<0 - 1, 0 - 1, 0 - 1, 0 - 1>>, <<0 - 1, 1, 0, 0 - 1>>}
ConvertTargets == 1..5
ResampleOptions ==
    {"0", "1", "2", "3", "4", "5", "6",
     "nearest", "lanczos", "bilinear", "bicubic", "box", "hamming", "cubic",
     "undefined"}

\* Pixel bytes of the images the caller constructs: distinct along the
\* buffer, none of them zero.
PatternByte(i) == (i * 37 + 255) % 256
Pattern(width, height, channels) ==
    RawImage([k \in 1..(width * height * channels) |-> PatternByte(k - 1)],
             width, height, channels)

\* The 2x2 RGB image red, green, blue, white.
Primaries ==
    RawImage(<<255, 0, 0, 0, 255, 0, 0, 0, 255, 255, 255, 255>>, 2, 2, 3)

\* 1x1 images whose weighted sums are 22.5 exactly: the double sum of the
\* first lies below the half, that of the second (7.5) on it.
HalfBelow == RawImage(<<0, 36, 12>>, 1, 1, 3)
HalfExact == RawImage(<<0, 12, 4, 0>>, 1, 1, 4)

InitImages ==
    {Pattern(w, h, c) : w \in Widths, h \in Heights, c \in Channels}
        \cup {Primaries, HalfBelow, HalfExact}

NoCall == [op |-> "new", args |-> <<>>, resample |-> ""]
NoRet ==
    [status |-> "none", val |-> <<>>, kernel |-> "", warned |-> FALSE,
     array |-> "", error |-> ""]

Init ==
    /\ env \in Environments
    /\ img \in InitImages
    /\ pre = img
    /\ call = NoCall
    /\ ret = NoRet
    /\ geometric = 0

\* A synchronous, chaining method: the instance is updated in place and is
\* the return value, or the method throws.
InPlace(op, args, r) ==
    /\ img' = r.this
    /\ pre' = img
    /\ call' = [op |-> op, args |-> args, resample |-> ""]
    /\ ret' = [status |-> IF r.threw THEN "threw" ELSE "this", val |-> r.this,
               kernel |-> "", warned |-> FALSE,
               array |-> IF r.threw THEN "" ELSE "this.data",
               error |-> IF r.threw THEN "Error" ELSE ""]
    /\ UNCHANGED <<env, geometric>>

\* An async method: the instance keeps its fields, the promise settles with
\* the instance, a new RawImage or a rejection.
Settled(op, args, resample, r) ==
    /\ geometric < MaxGeometric
    /\ geometric' = geometric + 1
    /\ img' = img
    /\ pre' = img
    /\ call' = [op |-> op, args |-> args, resample |-> resample]
    /\ ret' = [status |-> IF r.threw THEN "threw" ELSE IF r.same THEN "this" ELSE "new",
               val |-> r.val, kernel |-> r.kernel, warned |-> r.warned,
               array |-> r.array, error |-> r.error]
    /\ UNCHANGED env

Grayscale == InPlace("grayscale", <<>>, grayscale(img))

Rgb == InPlace("rgb", <<>>, rgb(img))

Rgba == InPlace("rgba", <<>>, rgba(img))

Convert == \E n \in ConvertTargets : InPlace("convert", <<n>>, convert(img, n))

\* resize is called with every size and the default option, and with
\* every option and one size.
ResizeInputs ==
    {<<width, height, "2">> : width \in Widths, height \in Heights}
        \cup {<<MaxWidth, 1, resample>> : resample \in ResampleOptions}

Resize ==
    \E input \in ResizeInputs :
        Settled("resize", <<input[1], input[2]>>, input[3],
                resize(img, env, input[1], input[2], input[3]))

Pad ==
    \E offsets \in PadOffsets :
        /\ img.width + Max(offsets[1], 0) + Max(offsets[2], 0) <= MaxWidth
        /\ img.height + Max(offsets[3], 0) + Max(offsets[4], 0) <= MaxHeight
        /\ Settled("pad", offsets, "", pad(img, env, offsets))

\* Only the browser branch hands half-pixel coordinates to drawImage.
CenterCrop ==
    \E crop_width \in Widths, crop_height \in Heights,
       rx \in (IF env = "browser" THEN {0, 1} ELSE {0}),
       ry \in (IF env = "browser" THEN {0, 1} ELSE {0}) :
        Settled("center_crop", <<crop_width, crop_height>>, "",
                center_crop(img, env, crop_width, crop_height, rx, ry))

Next ==
    \/ Grayscale
    \/ Rgb
    \/ Rgba
    \/ Convert
    \/ Resize
    \/ Pad
    \/ CenterCrop

Spec == Init /\ [][Next]_vars

\* The synchronous conversions alone: no other method changes the fields of
\* the instance they act on.
NextConvert ==
    \/ Grayscale
    \/ Rgb
    \/ Rgba
    \/ Convert

SpecConvert == Init /\ [][NextConvert]_vars

\* A synchronous method that does not chain: it hands back status (a
\* canvas, an ImageData, a new RawImage, nothing after a save) or throws.
Called(op, args, status, r) ==
    /\ img' = r.this
    /\ pre' = img
    /\ call' = [op |-> op, args |-> args, resample |-> ""]
    /\ ret' = [status |-> IF r.threw THEN "threw" ELSE status, val |-> r.val,
               kernel |-> "", warned |-> FALSE, array |-> r.array, error |-> r.error]
    /\ UNCHANGED <<env, geometric>>

\* Whether the polyfill is loaded is open only in env "react-native".
Polyfills(e) == IF e = "react-native" THEN BOOLEAN ELSE {HasCanvas(e, FALSE)}

ToImageData ==
    \E polyfill \in Polyfills(env) :
        Called("toImageData", <<polyfill>>, "imagedata", toImageData_env(img, env, polyfill))

ToCanvas ==
    \E polyfill \in Polyfills(env) :
        Called("toCanvas", <<polyfill>>, "canvas", toCanvas_env(img, env, polyfill))

Clone == Called("clone", <<>>, "new", clone_env(img))

\* Only the browser branch hands save() a canvas of the host.
Save ==
    \E useFS \in BOOLEAN, toBuffer \in (IF env = "browser" THEN BOOLEAN ELSE {TRUE}) :
        Called("save", <<useFS, toBuffer>>, "saved", save(img, env, useFS, toBuffer))

\* One call of a method that hands back an image, a canvas or a file, on an
\* instance as it was constructed.
FirstCall == call = NoCall

NextGeometry ==
    \/ FirstCall /\ Resize
    \/ FirstCall /\ Pad
    \/ FirstCall /\ CenterCrop
    \/ FirstCall /\ ToImageData
    \/ FirstCall /\ ToCanvas
    \/ FirstCall /\ Clone
    \/ FirstCall /\ Save

SpecGeometry == Init /\ [][NextGeometry]_vars

\* The sharp branch of resize, pad and center_crop runs synchronously up to
\* `await loadImageFunction(img)`: a throw or `return this` before it settles
\* the promise at once, otherwise the call is suspended holding the buffer
\* the backend is producing from the pipeline img.
Suspended(op, args, resample, r) ==
    /\ env = "sharp"
    /\ FirstCall
    /\ img' = img
    /\ pre' = img
    /\ call' = [op |-> op, args |-> args, resample |-> resample]
    /\ ret' = [status |-> IF r.threw THEN "threw" ELSE IF r.same THEN "this" ELSE "pending",
               val |-> r.val, kernel |-> r.kernel, warned |-> r.warned,
               array |-> r.array, error |-> r.error]
    /\ UNCHANGED <<env, geometric>>

ResizeSharp ==
    \E input \in ResizeInputs :
        Suspended("resize", <<input[1], input[2]>>, input[3],
                  resize(img, env, input[1], input[2], input[3]))

PadSharp ==
    \E offsets \in PadOffsets :
        /\ img.width + Max(offsets[1], 0) + Max(offsets[2], 0) <= MaxWidth
        /\ img.height + Max(offsets[3], 0) + Max(offsets[4], 0) <= MaxHeight
        /\ Suspended("pad", offsets, "", pad(img, env, offsets))

CenterCropSharp ==
    \E crop_width \in Widths, crop_height \in Heights :
        Suspended("center_crop", <<crop_width, crop_height>>, "",
                  center_crop(img, env, crop_width, crop_height, 0, 0))

\* A conversion called on the instance while its resize, pad or center_crop
\* is suspended.
WhileSuspended ==
    /\ ret.status = "pending"
    /\ \E r \in {grayscale(img), rgb(img), rgba(img)}
              \cup {convert(img, n) : n \in ConvertTargets} :
           img' = r.this
    /\ UNCHANGED <<env, pre, call, ret, geometric>>

\* What the suspended call reads of the instance after the await.
ResolvedReadsThis(buffer, this) ==
    RawImage(buffer.data, buffer.width, buffer.height, this.channels)

\* `return await loadImageFunction(img)`: the promise resolves with the
\* image built from the backend's buffer and info; no field of the instance
\* is read after the await.
Resolved(buffer, this) == loadImageFunction(buffer)

Resume ==
    /\ ret.status = "pending"
    /\ ret' = [ret EXCEPT !.status = "new", !.val = Resolved(ret.val, img)]
    /\ UNCHANGED <<env, img, pre, call, geometric>>

InitSharp == Init /\ env = "sharp"

NextAwait ==
    \/ ResizeSharp
    \/ PadSharp
    \/ CenterCropSharp
    \/ WhileSuspended
    \/ Resume

SpecAwait == InitSharp /\ [][NextAwait]_vars

\* ================================================================= claims
\* The layout the data model asks of an image.
Layout(im) == Len(im.data) = im.width * im.height * im.channels
WellFormed(im) == im.channels \in {1, 3, 4} /\ Layout(im)

\* Pixel number k (row-major) of an image, as the sequence of its bytes.
PixelAt(im, k) == [j \in 1..im.channels |-> At(im.data, k * im.channels + j - 1)]

PixelCount(im) == im.width * im.height

\* C1: after any sequence of conversions and geometric calls on an image of
\* 1, 3 or 4 channels, the instance and every image handed back hold exactly
\* width * height * channels bytes.
C1_LayoutAlways ==
    img.channels \in {1, 3, 4} =>
        /\ Layout(img)
        /\ ret.status \in {"this", "new"} => Layout(ret.val)

PadLeft == Max(call.args[1], 0)
PadRight == Max(call.args[2], 0)
PadTop == Max(call.args[3], 0)
PadBottom == Max(call.args[4], 0)

\* C3: pad with a positive offset returns, on every branch, an image of
\* size (width+left+right) x (height+top+bottom) with the same channels,
\* the source pixel (x, y) at (x+left, y+top) and zero everywhere else.
C3_PadPlacement ==
    (/\ call.op = "pad"
     /\ WellFormed(pre)
     /\ PadLeft + PadRight + PadTop + PadBottom > 0) =>
        /\ ret.status = "new"
        /\ ret.val.width = pre.width + PadLeft + PadRight
        /\ ret.val.height = pre.height + PadTop + PadBottom
        /\ ret.val.channels = pre.channels
        /\ \A x \in 0..(ret.val.width - 1), y \in 0..(ret.val.height - 1),
              j \in 0..(pre.channels - 1) :
              Pixel(ret.val, x, y, j) = Pixel(pre, x - PadLeft, y - PadTop, j)

\* The size asked of the last center_crop call.
CropWidth == call.args[1]
CropHeight == call.args[2]

\* C4: center_crop to a size no larger than the source returns, on every
\* branch and for odd and even differences, the crop_width x crop_height
\* image whose pixel (x, y) is the source pixel
\* (x + floor((width-cw)/2), y + floor((height-ch)/2)).
C4_CropInside ==
    (/\ call.op = "center_crop"
     /\ WellFormed(pre)
     /\ CropWidth <= pre.width /\ CropHeight <= pre.height
     /\ ~(CropWidth = pre.width /\ CropHeight = pre.height)) =>
        /\ ret.status = "new"
        /\ ret.val.width = CropWidth /\ ret.val.height = CropHeight
        /\ ret.val.channels = pre.channels
        /\ \A x \in 0..(CropWidth - 1), y \in 0..(CropHeight - 1),
              j \in 0..(pre.channels - 1) :
              Pixel(ret.val, x, y, j) =
                  Pixel(pre, x + (pre.width - CropWidth) \div 2,
                             y + (pre.height - CropHeight) \div 2, j)

\* Source coordinate of destination coordinate d on an axis of source
\* length n cropped to m: the source starts at floor((m-n)/2) when the crop
\* is longer, and is read from floor((n-m)/2) otherwise.
CropSource(d, n, m) ==
    IF m > n THEN d - (m - n) \div 2 ELSE d + (n - m) \div 2

\* C5: center_crop to a size exceeding the source on an axis returns, on
\* every branch, the crop_width x crop_height image in which each
\* destination pixel is the source pixel CropSource maps it to, or zero when
\* that lies outside the source.
C5_CropOutside ==
    (/\ call.op = "center_crop"
     /\ WellFormed(pre)
     /\ (CropWidth > pre.width \/ CropHeight > pre.height)) =>
        /\ ret.status = "new"
        /\ ret.val.width = CropWidth /\ ret.val.height = CropHeight
        /\ ret.val.channels = pre.channels
        /\ \A x \in 0..(CropWidth - 1), y \in 0..(CropHeight - 1),
              j \in 0..(pre.channels - 1) :
              Pixel(ret.val, x, y, j) =
                  Pixel(pre, CropSource(x, pre.width, CropWidth),
                             CropSource(y, pre.height, CropHeight), j)

\* C6: resize(w, h) on the canvas branches and the branch without canvas
\* returns, for a source of 1, 3 or 4 channels, a w x h image of the
\* source's channel count holding exactly w * h * channels bytes.
C6_ResizeShape ==
    (/\ call.op = "resize"
     /\ env \in {"react-native-canvas", "react-native", "browser"}
     /\ WellFormed(pre)) =>
        /\ ret.status = "new"
        /\ ret.val.width = call.args[1]
        /\ ret.val.height = call.args[2]
        /\ ret.val.channels = pre.channels
        /\ Len(ret.val.data) = call.args[1] * call.args[2] * pre.channels

\* C7: grayscale(), rgb() and rgba() on an image whose channel count is not
\* 1, 3 or 4 throw and leave data, width, height and channels as they were.
C7_UnsupportedSourceThrows ==
    (call.op \in {"grayscale", "rgb", "rgba"} /\ pre.channels \notin {1, 3, 4}) =>
        /\ ret.status = "threw"
        /\ img = pre

C7_Witness ==
    /\ call.op = "grayscale"
    /\ pre.channels = 2
    /\ ret.status = "threw"

\* C8: convert(n) with n outside {1, 3, 4} throws for every image, whatever
\* its channel count.
C8_UnsupportedTargetThrows ==
    (call.op = "convert" /\ call.args[1] \notin {1, 3, 4}) => ret.status = "threw"

\* C9: convert(1) followed by convert(3) on an image of 3 or 4 channels
\* gives a 3-channel image of width * height pixels in which R = G = B =
\* the luma of the corresponding original pixel.
C9_GrayRoundTrip ==
    [][(/\ call.op = "convert" /\ call.args = <<1>>
        /\ pre.channels \in {3, 4}
        /\ call'.op = "convert" /\ call'.args = <<3>>) =>
           /\ ret'.status = "this"
           /\ img'.channels = 3
           /\ img'.width = pre.width /\ img'.height = pre.height
           /\ Len(img'.data) = 3 * PixelCount(pre)
           /\ \A k \in 0..(PixelCount(pre) - 1) :
                 LET px == PixelAt(pre, k)
                     luma == Luma(px[1], px[2], px[3])
                 IN  PixelAt(img', k) = <<luma, luma, luma>>]_vars

C9_Witness ==
    /\ call.op = "convert" /\ call.args = <<3>>
    /\ pre.channels = 1
    /\ Len(pre.data) = 3 * PixelCount(pre)
    /\ ret.status = "this"
    /\ img.channels = 3

\* What rgb() and rgba() did to the colour of each pixel in the last call.
ColourKept ==
    /\ (call.op = "rgb" /\ pre.channels \in {1, 4}) =>
          /\ ret.status = "this"
          /\ img.channels = 3
          /\ Layout(img)
          /\ \A k \in 0..(PixelCount(pre) - 1) :
                PixelAt(img, k) =
                    IF pre.channels = 1
                    THEN <<pre.data[k + 1], pre.data[k + 1], pre.data[k + 1]>>
                    ELSE SubSeq(PixelAt(pre, k), 1, 3)
    /\ (call.op = "rgba" /\ pre.channels \in {1, 3}) =>
          /\ ret.status = "this"
          /\ img.channels = 4
          /\ Layout(img)
          /\ \A k \in 0..(PixelCount(pre) - 1) :
                PixelAt(img, k) =
                    IF pre.channels = 1
                    THEN <<pre.data[k + 1], pre.data[k + 1], pre.data[k + 1], 255>>
                    ELSE PixelAt(pre, k) \o <<255>>

\* C10: rgb() and rgba() keep the colour of every pixel (gray replicated to
\* R = G = B, alpha dropped by rgb(), alpha 255 added by rgba()), and a
\* second convert(n) right after convert(n) leaves data, size and channels
\* as the first left them.
C10_ColourAndIdempotence ==
    [][/\ ColourKept'
       /\ (/\ call.op = "convert"
           /\ call'.op = "convert"
           /\ call'.args = call.args) => img' = img]_vars

C10_Witness ==
    /\ call.op = "rgba"
    /\ pre.channels = 1
    /\ ret.status = "this"
    /\ img.channels = 4
    /\ Layout(img)

\* C11: pad() whose four offsets are all <= 0 and center_crop() to the
\* current size return, on every branch, the instance they were called on,
\* its data, width, height and channels as they were.
C11_NoOpSameInstance ==
    (\/ call.op = "pad" /\ \A i \in 1..4 : call.args[i] <= 0
     \/ call.op = "center_crop" /\ call.args = <<pre.width, pre.height>>) =>
        /\ ret.status = "this"
        /\ ret.val = pre
        /\ img = pre

C11_Witness ==
    /\ call.op = "pad"
    /\ call.args = <<0 - 1, 0 - 1, 0 - 1, 0 - 1>>
    /\ ret.status = "this"
    /\ Len(img.data) > 0

\* The resample method the last resize call asked for, by the table
\* 0 nearest, 1 lanczos, 2 bilinear, 3 bicubic, 4 box, 5 hamming; 2 when the
\* option is omitted; a name stands for itself.
AskedMethod ==
    CASE call.resample = "0" -> "nearest"
      [] call.resample = "1" -> "lanczos"
      [] call.resample \in {"2", "undefined"} -> "bilinear"
      [] call.resample = "3" -> "bicubic"
      [] call.resample = "4" -> "box"
      [] call.resample = "5" -> "hamming"
      [] OTHER -> call.resample

\* C12: on the sharp branch resize resolves its resample option by that
\* table; nearest, bilinear and bicubic go to affine with that interpolator,
\* box and hamming to affine with bilinear after a warning, lanczos to
\* resize with the lanczos3 kernel, and none of these fails; any other code
\* or name rejects the promise without the call ever being suspended.
C12_ResampleTable ==
    (env = "sharp" /\ call.op = "resize") =>
        /\ AskedMethod \in {"nearest", "bilinear", "bicubic"} =>
              /\ ret.status \in {"pending", "new"}
              /\ ret.kernel = "affine:" \o AskedMethod
              /\ ~ret.warned
        /\ AskedMethod \in {"box", "hamming"} =>
              /\ ret.status \in {"pending", "new"}
              /\ ret.kernel = "affine:bilinear"
              /\ ret.warned
        /\ AskedMethod = "lanczos" =>
              /\ ret.status \in {"pending", "new"}
              /\ ret.kernel = "resize:lanczos3"
              /\ ~ret.warned
        /\ AskedMethod \notin {"nearest", "bilinear", "bicubic", "box", "hamming", "lanczos"} =>
              /\ ret.status = "threw"
              /\ ret.error = "Resampling method is not supported"

C12_Witness ==
    /\ env = "sharp"
    /\ call.op = "resize"
    /\ call.resample = "5"
    /\ ret.status = "new"
    /\ ret.warned
    /\ ret.val.width = MaxWidth

\* C13: save() with filesystem access enabled encodes the buffer of the
\* instance as RGBA and writes it, on every branch, for an image of 1, 3 or
\* 4 channels (in the browser: where the host's canvas has toBuffer); with
\* filesystem access disabled it throws the filesystem error and encodes
\* and writes nothing.
C13_SaveWrites ==
    (/\ call.op = "save"
     /\ pre.channels \in {1, 3, 4}
     /\ call.args[2]) =>
        IF call.args[1]
        THEN /\ ret.status = "saved"
             /\ ret.val.channels = 4
             /\ ret.val.width = pre.width /\ ret.val.height = pre.height
             /\ ret.val.data = rgba(pre).this.data
        ELSE /\ ret.status = "threw"
             /\ ret.error = "filesystem is disabled"

\* C14: a resize(w, h) that does not fail hands back the instance it was
\* called on, whose width and height have become w and h and whose data is
\* that of the resized image.
C14_ResizeInPlace ==
    (call.op = "resize" /\ ret.status # "threw") =>
        /\ ret.status = "this"
        /\ ret.val = img
        /\ img.width = call.args[1]
        /\ img.height = call.args[2]
        /\ Len(img.data) = call.args[1] * call.args[2] * pre.channels

\* Whether the last call was a pad() or center_crop() that asks for no change.
NoOpCall ==
    \/ call.op = "pad" /\ \A i \in 1..4 : call.args[i] <= 0
    \/ call.op = "center_crop" /\ call.args = <<pre.width, pre.height>>

C16_SaveKeepsInstance ==
    call.op = "save" => img = pre

\* The image a resize, pad or center_crop on the sharp branch produces from
\* the fields this: those the instance had when the last call was made.
AtCallTime(this) ==
    CASE call.op = "resize" ->
             resize(this, "sharp", call.args[1], call.args[2], call.resample).val
      [] call.op = "pad" -> pad(this, "sharp", call.args).val
      [] call.op = "center_crop" ->
             center_crop(this, "sharp", call.args[1], call.args[2], 0, 0).val

\* C17: a resize, pad or center_crop on the sharp branch that was suspended
\* resolves with the image computed from the data, width, height and
\* channels the instance had when the call was made, whatever conversions
\* ran on the instance during the suspension.
C17_SnapshotAtCall ==
    (/\ env = "sharp"
     /\ call.op \in {"resize", "pad", "center_crop"}
     /\ ret.status = "new") =>
        /\ ret.val = AtCallTime(pre)
        /\ ret.val.channels = pre.channels

C17_Witness ==
    /\ env = "sharp"
    /\ call.op = "pad"
    /\ ret.status = "new"
    /\ pre.channels = 3
    /\ img.channels = 1
    /\ ret.val.channels = 3
    /\ ret.val.width > pre.width

====
